---- MODULE Spec2Model ----
(***************************************************************************)
(* ArbitrageExecutor (hummingbot/smart_components/arbitrage_executor):     *)
(* one arbitrage run, its two order legs, the periodic control_task and    *)
(* the order-created / order-failed event handlers, together with the      *)
(* venue that fills or fails the submitted orders.                         *)
(*                                                                         *)
(* Decimal fractions are kept as exact ratios num/den and compared by      *)
(* cross-multiplication; the quote and fee inputs are chosen so that the   *)
(* Decimal divisions of the source are exact.  Fee amounts are counted in  *)
(* 1/FeeScale of the base asset, min_profitability in 1/ProfScale.         *)
(***************************************************************************)
EXTENDS Integers, FiniteSets, Sequences, TLC

\* ------------------------------------------------------------------ bounds
\* The venues accept at most MaxOrders orders of this run.
MaxOrders == 5
\* max_retries of the configuration ranges over 0..MaxRetriesBound.
MaxRetriesBound == 2

\* ------------------------------------------------- configuration and units
\* None of Python: an absent order id, order snapshot or last price.
NoneVal == -1
\* A failed quote, fee or rate request (the awaited call raises).
Unavailable == -2
\* Fee amounts are integers in units of 1/FeeScale of the base asset.
FeeScale == 1000
\* min_profitability is an integer in units of 1/ProfScale.
ProfScale == 10000
\* arbitrage_config.order_amount
order_amount == 10
\* arbitrage_config.min_profitability, 0.3 % in units of 1/ProfScale
min_profitability == 30

\* The quote, fee and fill values the venues answer with.
BuyQuotes == {Unavailable, 0, 100}
SellQuotes == {Unavailable, 100, 101}
LegFees == {Unavailable, 25, 35}
FillPrices == {100, 101}
FillFees == {1}

Quotes == [buy : BuyQuotes, sell : SellQuotes, buy_fee : LegFees, sell_fee : LegFees]
NoQuote == [buy |-> NoneVal, sell |-> NoneVal, buy_fee |-> NoneVal, sell_fee |-> NoneVal]

OrderIds == 1..MaxOrders
\* An order of the same venue that belongs to another component.
ForeignId == MaxOrders + 1

VARIABLES
    max_retries,          \* self.max_retries
    arbitrage_status,     \* self.arbitrage_status
    buy_order,            \* self._buy_order  : TrackedOrder
    sell_order,           \* self._sell_order : TrackedOrder
    last_buy_price,       \* self._last_buy_price
    last_sell_price,      \* self._last_sell_price
    last_tx_cost,         \* self._last_tx_cost
    cumulative_failures,  \* self._cumulative_failures
    terminated,           \* the control loop's terminated flag
    raised,               \* the last control_task raised to its caller
    orders,               \* the venues' in-flight orders, by order id
    next_id,              \* number of orders submitted so far
    resubmissions,        \* history: orders placed by the failure handler
    pc,                   \* where a suspended control_task awaits ("idle": none)
    buy_fee,              \* local buy_fee of the suspended get_tx_cost_pct
    last                  \* history: the operation that produced this state

vars == <<max_retries, arbitrage_status, buy_order, sell_order, last_buy_price,
          last_sell_price, last_tx_cost, cumulative_failures, terminated, raised,
          orders, next_id, resubmissions, pc, buy_fee, last>>

\* ------------------------------------------------------------ data types
TrackedOrder(id) == [order_id |-> id, order |-> NoneVal]

NoOrder == [state |-> "none", market |-> "none", side |-> "none", amount |-> 0,
            price |-> NoneVal,
            executed_amount |-> 0, average_price |-> 0, cum_fee_quote |-> 0]

InFlightOrder(market, side, amount, price) ==
    [state |-> "submitted", market |-> market, side |-> side, amount |-> amount,
     price |-> price,
     executed_amount |-> 0, average_price |-> 0, cum_fee_quote |-> 0]

Op(name, id, q) == [op |-> name, id |-> id, q |-> q]

\* ------------------------------------------------------------------ Init
Init ==
    /\ max_retries \in 0..MaxRetriesBound
    /\ arbitrage_status = "NOT_STARTED"
    /\ buy_order = TrackedOrder(NoneVal)
    /\ sell_order = TrackedOrder(NoneVal)
    /\ last_buy_price = NoneVal
    /\ last_sell_price = NoneVal
    /\ last_tx_cost = NoneVal
    /\ cumulative_failures = 0
    /\ terminated = FALSE
    /\ raised = FALSE
    /\ orders = [i \in OrderIds |-> NoOrder]
    /\ next_id = 0
    /\ resubmissions = 0
    /\ pc = "idle"
    /\ buy_fee = NoneVal
    /\ last = Op("init", NoneVal, NoQuote)

\* ------------------------------------------------- profitability evaluator
\* get_buy_and_sell_prices: gather() raises when either quote request fails.
PricesAvailable(q) == q.buy # Unavailable /\ q.sell # Unavailable

\* get_trade_pnl_pct raises when the quotes fail or the division by the buy
\* price is a division by zero.
TradePnlRaises(q) == ~PricesAvailable(q) \/ q.buy = 0

\* get_trade_pnl_pct: (sell - buy) / buy as a ratio.
get_trade_pnl_pct(q) == [num |-> q.sell - q.buy, den |-> q.buy]

\* get_tx_cost_in_asset raises for either leg.
TxCostRaises(q) == q.buy_fee = Unavailable \/ q.sell_fee = Unavailable

\* get_tx_cost_pct: (buy_fee + sell_fee) / order_amount as a ratio.
get_tx_cost_pct(q) == [num |-> q.buy_fee + q.sell_fee, den |-> FeeScale * order_amount]

\* Mutant of ExceedsMinimum: the comparison admits equality.
ExceedsMinimum_OrEqual(pnl, fee) ==
    (pnl.num * fee.den - fee.num * pnl.den) * ProfScale
        >= min_profitability * pnl.den * fee.den

\* trade_pnl_pct - fee_pct > min_profitability, with positive denominators.
ExceedsMinimum(pnl, fee) ==
    (pnl.num * fee.den - fee.num * pnl.den) * ProfScale
        > min_profitability * pnl.den * fee.den

EvaluationRaises(q) == TradePnlRaises(q) \/ TxCostRaises(q)

\* Mutant of IsProfitable: a failed fee request counts as a zero fee.
IsProfitable_FeeErrorAsZero(q) ==
    /\ ~TradePnlRaises(q)
    /\ ExceedsMinimum(get_trade_pnl_pct(q),
                      [num |-> (IF q.buy_fee = Unavailable THEN 0 ELSE q.buy_fee)
                               + (IF q.sell_fee = Unavailable THEN 0 ELSE q.sell_fee),
                       den |-> FeeScale * order_amount])

IsProfitable(q) ==
    /\ ~EvaluationRaises(q)
    /\ ExceedsMinimum(get_trade_pnl_pct(q), get_tx_cost_pct(q))

\* ------------------------------------------------------- order submission
\* place_order: the venue registers a new market order and the leg becomes a
\* TrackedOrder carrying its identifier, with no order snapshot yet.
place_order(ords, n, market, side, amount, price) ==
    [leg |-> TrackedOrder(n + 1),
     orders |-> [ords EXCEPT ![n + 1] = InFlightOrder(market, side, amount, price)],
     next_id |-> n + 1]

\* place_buy_arbitrage_order / place_sell_arbitrage_order on a venue state.
place_buy_arbitrage_order(ords, n, price) ==
    place_order(ords, n, "buying_market", "BUY", order_amount, price)

place_sell_arbitrage_order(ords, n, price) ==
    place_order(ords, n, "selling_market", "SELL", order_amount, price)

\* terminate_control_loop
terminate_control_loop == terminated' = TRUE

\* Mutant of execute_arbitrage: the sell leg is placed with the buy side.
execute_arbitrage_BuyTwice(buy_price, sell_price) ==
    LET b == place_buy_arbitrage_order(orders, next_id, buy_price)
        s == place_buy_arbitrage_order(b.orders, b.next_id, sell_price)
    IN  /\ arbitrage_status' = "ACTIVE_ARBITRAGE"
        /\ buy_order' = b.leg
        /\ sell_order' = s.leg
        /\ orders' = s.orders
        /\ next_id' = s.next_id

\* Mutant of execute_arbitrage: only the buy leg is placed by the step; the sell
\* leg is left for later.
execute_arbitrage_BuyOnly(buy_price, sell_price) ==
    LET b == place_buy_arbitrage_order(orders, next_id, buy_price)
    IN  /\ arbitrage_status' = "ACTIVE_ARBITRAGE"
        /\ buy_order' = b.leg
        /\ sell_order' = sell_order
        /\ orders' = b.orders
        /\ next_id' = b.next_id

\* execute_arbitrage: status first, then the buy leg, then the sell leg, with
\* no suspension point in between.
execute_arbitrage(buy_price, sell_price) ==
    LET b == place_buy_arbitrage_order(orders, next_id, buy_price)
        s == place_sell_arbitrage_order(b.orders, b.next_id, sell_price)
    IN  /\ arbitrage_status' = "ACTIVE_ARBITRAGE"
        /\ buy_order' = b.leg
        /\ sell_order' = s.leg
        /\ orders' = s.orders
        /\ next_id' = s.next_id

\* ------------------------------------------------------------ control_task
\* is_filled of the in-flight order a leg refers to.
is_filled(ref) == orders[ref].state = "filled"

\* check_order_status reads .is_filled of an absent snapshot (None): the buy
\* leg is read first and the sell leg only when the buy leg is filled.
CheckRaises ==
    \/ buy_order.order = NoneVal
    \/ is_filled(buy_order.order) /\ sell_order.order = NoneVal

\* Mutant of BothFilled: the sell leg only needs a snapshot.
BothFilled_BuyOnly ==
    /\ buy_order.order # NoneVal
    /\ is_filled(buy_order.order)
    /\ sell_order.order # NoneVal

BothFilled ==
    /\ buy_order.order # NoneVal
    /\ is_filled(buy_order.order)
    /\ sell_order.order # NoneVal
    /\ is_filled(sell_order.order)

\* Mutant of check_order_status: the run completes without stopping the
\* control loop.
check_order_status_NoTerminate ==
    IF CheckRaises
    THEN /\ raised' = TRUE
         /\ UNCHANGED <<arbitrage_status, terminated>>
    ELSE /\ raised' = FALSE
         /\ IF BothFilled
            THEN /\ arbitrage_status' = "COMPLETED"
                 /\ UNCHANGED terminated
            ELSE UNCHANGED <<arbitrage_status, terminated>>

check_order_status ==
    IF CheckRaises
    THEN /\ raised' = TRUE
         /\ UNCHANGED <<arbitrage_status, terminated>>
    ELSE /\ raised' = FALSE
         /\ IF BothFilled
            THEN /\ arbitrage_status' = "COMPLETED"
                 /\ terminate_control_loop
            ELSE UNCHANGED <<arbitrage_status, terminated>>

\* Mutant of BudgetExceeded: the budget counts as exhausted at max_retries.
BudgetExceeded_AtLimit == cumulative_failures >= max_retries

\* The retry budget is exhausted.
BudgetExceeded == cumulative_failures > max_retries

\* control_task in NOT_STARTED from the answer of its last await to its return,
\* the evaluation having seen q: get_tx_cost_pct records the cost or raises, the
\* profitability is compared and execute_arbitrage runs, with no suspension
\* point in between; an exception ends in the except clause.
EvaluateStep(q) ==
    /\ last_tx_cost' = IF TxCostRaises(q) THEN last_tx_cost
                       ELSE q.buy_fee + q.sell_fee
    /\ IF IsProfitable(q)
       THEN execute_arbitrage(last_buy_price, last_sell_price)
       ELSE UNCHANGED <<arbitrage_status, buy_order, sell_order, orders, next_id>>
    /\ raised' = FALSE
    /\ UNCHANGED <<max_retries, last_buy_price, last_sell_price,
                   cumulative_failures, terminated, resubmissions>>

\* Mutant of ActiveStep: the fill check precedes the failure-budget check.
ActiveStep_FillFirst ==
    /\ IF ~CheckRaises /\ BothFilled
       THEN check_order_status
       ELSE IF BudgetExceeded
       THEN /\ arbitrage_status' = "FAILED"
            /\ terminate_control_loop
            /\ raised' = FALSE
       ELSE check_order_status
    /\ UNCHANGED <<max_retries, buy_order, sell_order, last_buy_price,
                   last_sell_price, last_tx_cost, cumulative_failures, orders,
                   next_id, resubmissions>>

\* control_task in ACTIVE_ARBITRAGE.
ActiveStep ==
    /\ IF BudgetExceeded
       THEN /\ arbitrage_status' = "FAILED"
            /\ terminate_control_loop
            /\ raised' = FALSE
       ELSE check_order_status
    /\ UNCHANGED <<max_retries, buy_order, sell_order, last_buy_price,
                   last_sell_price, last_tx_cost, cumulative_failures, orders,
                   next_id, resubmissions>>

\* control_task in COMPLETED or FAILED: neither branch is taken.
IdleStep ==
    /\ raised' = FALSE
    /\ UNCHANGED <<max_retries, arbitrage_status, buy_order, sell_order,
                   last_buy_price, last_sell_price, last_tx_cost,
                   cumulative_failures, terminated, orders, next_id, resubmissions>>

\* control_task is a coroutine.  In NOT_STARTED it suspends three times: at
\* the gather of the two quotes (get_buy_and_sell_prices), at the buy leg's
\* fee and at the sell leg's fee (get_tx_cost_pct); the event handlers, plain
\* callbacks of the same event loop, run while it is suspended.  From the
\* answer of the sell leg's fee to the end of execute_arbitrage there is no
\* suspension point, and the ACTIVE_ARBITRAGE branch has none at all.

\* control_task called in NOT_STARTED: it suspends at the gather of the quotes.
control_task_call ==
    /\ pc' = "await_prices"
    /\ last' = Op("call", NoneVal, NoQuote)
    /\ UNCHANGED <<max_retries, arbitrage_status, buy_order, sell_order,
                   last_buy_price, last_sell_price, last_tx_cost,
                   cumulative_failures, terminated, raised, orders, next_id,
                   resubmissions>>

\* Mutant of control_task: the evaluation runs in every status but
\* ACTIVE_ARBITRAGE.
control_task_EvaluateUnlessActive ==
    /\ pc = "idle"
    /\ IF arbitrage_status # "ACTIVE_ARBITRAGE"
       THEN control_task_call
       ELSE /\ ActiveStep
            /\ pc' = "idle"
            /\ last' = Op("step", NoneVal, NoQuote)
    /\ UNCHANGED buy_fee

\* control_task from its call to its first suspension (NOT_STARTED) or to its
\* return (every other status).
control_task ==
    /\ pc = "idle"
    /\ IF arbitrage_status = "NOT_STARTED"
       THEN control_task_call
       ELSE /\ IF arbitrage_status = "ACTIVE_ARBITRAGE" THEN ActiveStep ELSE IdleStep
            /\ pc' = "idle"
            /\ last' = Op("step", NoneVal, NoQuote)
    /\ UNCHANGED buy_fee

\* What the evaluation in progress has seen: the recorded quotes and the fees.
Seen(bf, sf) == [buy |-> last_buy_price, sell |-> last_sell_price,
                 buy_fee |-> bf, sell_fee |-> sf]

\* The gather of the quotes answers q.buy, q.sell: get_trade_pnl_pct records them
\* and divides, then get_tx_cost_pct suspends at the buy leg's fee; or the
\* gather or the division raises into the except clause and control_task
\* returns.
prices_return(q) ==
    /\ pc = "await_prices"
    /\ last_buy_price' = IF PricesAvailable(q) THEN q.buy ELSE last_buy_price
    /\ last_sell_price' = IF PricesAvailable(q) THEN q.sell ELSE last_sell_price
    /\ IF TradePnlRaises(q)
       THEN pc' = "idle" /\ raised' = FALSE /\ last' = Op("step", NoneVal, q)
       ELSE pc' = "await_buy_fee" /\ UNCHANGED raised /\ last' = Op("prices", NoneVal, q)
    /\ UNCHANGED <<max_retries, arbitrage_status, buy_order, sell_order,
                   last_tx_cost, cumulative_failures, terminated, orders, next_id,
                   resubmissions, buy_fee>>

\* The buy leg's fee answers: get_tx_cost_pct keeps it and suspends at the sell
\* leg's fee, or the request raises and control_task returns.
buy_fee_return(fee) ==
    /\ pc = "await_buy_fee"
    /\ IF fee = Unavailable
       THEN /\ pc' = "idle"
            /\ buy_fee' = NoneVal
            /\ raised' = FALSE
            /\ last' = Op("step", NoneVal, Seen(fee, NoneVal))
       ELSE /\ pc' = "await_sell_fee"
            /\ buy_fee' = fee
            /\ UNCHANGED raised
            /\ last' = Op("buy_fee", NoneVal, Seen(fee, NoneVal))
    /\ UNCHANGED <<max_retries, arbitrage_status, buy_order, sell_order,
                   last_buy_price, last_sell_price, last_tx_cost,
                   cumulative_failures, terminated, orders, next_id, resubmissions>>

\* The sell leg's fee answers: control_task runs from there to its return.
sell_fee_return(fee) ==
    /\ pc = "await_sell_fee"
    /\ EvaluateStep(Seen(buy_fee, fee))
    /\ pc' = "idle"
    /\ buy_fee' = NoneVal
    /\ last' = Op("step", NoneVal, Seen(buy_fee, fee))

PricesReturn ==
    \E b \in BuyQuotes, s \in SellQuotes :
        prices_return([buy |-> b, sell |-> s, buy_fee |-> NoneVal, sell_fee |-> NoneVal])

BuyFeeReturn == \E fee \in LegFees : buy_fee_return(fee)

SellFeeReturn == \E fee \in LegFees : sell_fee_return(fee)

\* --------------------------------------------------------- event handlers
\* get_in_flight_order: the venue's live order object, by identifier.
get_in_flight_order(id) == id

\* Mutant of process_order_created_event: every notification that is not the
\* buy leg's is taken for the sell leg's.
process_order_created_event_NoSellMatch(id) ==
    /\ IF buy_order.order_id = id
       THEN /\ buy_order' = [buy_order EXCEPT !.order = get_in_flight_order(id)]
            /\ UNCHANGED sell_order
       ELSE /\ sell_order' = [sell_order EXCEPT !.order = get_in_flight_order(id)]
            /\ UNCHANGED buy_order
    /\ last' = Op("created", id, NoQuote)
    /\ UNCHANGED <<max_retries, arbitrage_status, last_buy_price, last_sell_price,
                   last_tx_cost, cumulative_failures, terminated, raised, orders,
                   next_id, resubmissions>>

\* Mutant of process_order_created_event: the sell leg's snapshot is attached
\* to the buy leg.
process_order_created_event_SellToBuy(id) ==
    /\ IF buy_order.order_id = id \/ sell_order.order_id = id
       THEN /\ buy_order' = [buy_order EXCEPT !.order = get_in_flight_order(id)]
            /\ UNCHANGED sell_order
       ELSE UNCHANGED <<buy_order, sell_order>>
    /\ last' = Op("created", id, NoQuote)
    /\ UNCHANGED <<max_retries, arbitrage_status, last_buy_price, last_sell_price,
                   last_tx_cost, cumulative_failures, terminated, raised, orders,
                   next_id, resubmissions>>

\* process_order_created_event
process_order_created_event(id) ==
    /\ IF buy_order.order_id = id
       THEN /\ buy_order' = [buy_order EXCEPT !.order = get_in_flight_order(id)]
            /\ UNCHANGED sell_order
       ELSE IF sell_order.order_id = id
       THEN /\ sell_order' = [sell_order EXCEPT !.order = get_in_flight_order(id)]
            /\ UNCHANGED buy_order
       ELSE UNCHANGED <<buy_order, sell_order>>
    /\ last' = Op("created", id, NoQuote)
    /\ UNCHANGED <<max_retries, arbitrage_status, last_buy_price, last_sell_price,
                   last_tx_cost, cumulative_failures, terminated, raised, orders,
                   next_id, resubmissions>>

\* Mutant of process_order_failed_event: a failure of the sell leg is not
\* counted.
process_order_failed_event_SellUncounted(id) ==
    /\ IF buy_order.order_id = id
       THEN LET b == place_buy_arbitrage_order(orders, next_id, last_buy_price)
            IN  /\ buy_order' = b.leg
                /\ orders' = b.orders
                /\ next_id' = b.next_id
                /\ cumulative_failures' = cumulative_failures + 1
                /\ resubmissions' = resubmissions + 1
                /\ UNCHANGED sell_order
       ELSE IF sell_order.order_id = id
       THEN LET s == place_sell_arbitrage_order(orders, next_id, last_sell_price)
            IN  /\ sell_order' = s.leg
                /\ orders' = s.orders
                /\ next_id' = s.next_id
                /\ resubmissions' = resubmissions + 1
                /\ UNCHANGED <<buy_order, cumulative_failures>>
       ELSE UNCHANGED <<buy_order, sell_order, orders, next_id,
                        cumulative_failures, resubmissions>>
    /\ last' = Op("failed", id, NoQuote)
    /\ UNCHANGED <<max_retries, arbitrage_status, last_buy_price, last_sell_price,
                   last_tx_cost, terminated, raised>>

\* Mutant of process_order_failed_event: the buy leg is resubmitted for every
\* failure that is not the sell leg's.
process_order_failed_event_NoBuyMatch(id) ==
    /\ IF sell_order.order_id = id
       THEN LET s == place_sell_arbitrage_order(orders, next_id, last_sell_price)
            IN  /\ sell_order' = s.leg
                /\ orders' = s.orders
                /\ next_id' = s.next_id
                /\ cumulative_failures' = cumulative_failures + 1
                /\ resubmissions' = resubmissions + 1
                /\ UNCHANGED buy_order
       ELSE IF next_id < MaxOrders
       THEN LET b == place_buy_arbitrage_order(orders, next_id, last_buy_price)
            IN  /\ buy_order' = b.leg
                /\ orders' = b.orders
                /\ next_id' = b.next_id
                /\ cumulative_failures' = cumulative_failures + 1
                /\ resubmissions' = resubmissions + 1
                /\ UNCHANGED sell_order
       ELSE UNCHANGED <<buy_order, sell_order, orders, next_id,
                        cumulative_failures, resubmissions>>
    /\ last' = Op("failed", id, NoQuote)
    /\ UNCHANGED <<max_retries, arbitrage_status, last_buy_price, last_sell_price,
                   last_tx_cost, terminated, raised>>

\* Mutant of process_order_failed_event: the sell branch resubmits the buy leg.
process_order_failed_event_SellPlacesBuy(id) ==
    /\ IF buy_order.order_id = id
       THEN LET b == place_buy_arbitrage_order(orders, next_id, last_buy_price)
            IN  /\ buy_order' = b.leg
                /\ orders' = b.orders
                /\ next_id' = b.next_id
                /\ cumulative_failures' = cumulative_failures + 1
                /\ resubmissions' = resubmissions + 1
                /\ UNCHANGED sell_order
       ELSE IF sell_order.order_id = id /\ next_id < MaxOrders
       THEN LET b == place_buy_arbitrage_order(orders, next_id, last_buy_price)
            IN  /\ buy_order' = b.leg
                /\ orders' = b.orders
                /\ next_id' = b.next_id
                /\ cumulative_failures' = cumulative_failures + 1
                /\ resubmissions' = resubmissions + 1
                /\ UNCHANGED sell_order
       ELSE UNCHANGED <<buy_order, sell_order, orders, next_id,
                        cumulative_failures, resubmissions>>
    /\ last' = Op("failed", id, NoQuote)
    /\ UNCHANGED <<max_retries, arbitrage_status, last_buy_price, last_sell_price,
                   last_tx_cost, terminated, raised>>

\* process_order_failed_event
process_order_failed_event(id) ==
    /\ IF buy_order.order_id = id
       THEN LET b == place_buy_arbitrage_order(orders, next_id, last_buy_price)
            IN  /\ buy_order' = b.leg
                /\ orders' = b.orders
                /\ next_id' = b.next_id
                /\ cumulative_failures' = cumulative_failures + 1
                /\ resubmissions' = resubmissions + 1
                /\ UNCHANGED sell_order
       ELSE IF sell_order.order_id = id
       THEN LET s == place_sell_arbitrage_order(orders, next_id, last_sell_price)
            IN  /\ sell_order' = s.leg
                /\ orders' = s.orders
                /\ next_id' = s.next_id
                /\ cumulative_failures' = cumulative_failures + 1
                /\ resubmissions' = resubmissions + 1
                /\ UNCHANGED buy_order
       ELSE UNCHANGED <<buy_order, sell_order, orders, next_id,
                        cumulative_failures, resubmissions>>
    /\ last' = Op("failed", id, NoQuote)
    /\ UNCHANGED <<max_retries, arbitrage_status, last_buy_price, last_sell_price,
                   last_tx_cost, terminated, raised>>

\* ------------------------------------------------------------- the venues
\* Orders of this run that exist on a venue.
Submitted == {i \in OrderIds : orders[i].state # "none"}

\* Legs whose current order has failed and whose failure is not yet handled.
PendingFailures ==
    Cardinality({i \in {buy_order.order_id, sell_order.order_id} :
                    i \in OrderIds /\ orders[i].state = "failed"})

\* A venue fills a submitted market order completely.
VenueFill(id, price, fee) ==
    /\ orders[id].state = "submitted"
    /\ orders' = [orders EXCEPT ![id] =
                     [@ EXCEPT !.state = "filled", !.executed_amount = orders[id].amount,
                               !.average_price = price, !.cum_fee_quote = fee]]
    /\ last' = Op("fill", id, NoQuote)
    /\ UNCHANGED <<max_retries, arbitrage_status, buy_order, sell_order,
                   last_buy_price, last_sell_price, last_tx_cost,
                   cumulative_failures, terminated, raised, next_id, resubmissions>>

\* A venue fails a submitted order (while it can still accept the replacement).
VenueFail(id) ==
    /\ orders[id].state = "submitted"
    /\ next_id + PendingFailures < MaxOrders
    /\ orders' = [orders EXCEPT ![id].state = "failed"]
    /\ last' = Op("fail", id, NoQuote)
    /\ UNCHANGED <<max_retries, arbitrage_status, buy_order, sell_order,
                   last_buy_price, last_sell_price, last_tx_cost,
                   cumulative_failures, terminated, raised, next_id, resubmissions>>

\* The venue announces the creation of an order: one of this run's orders,
\* possibly late or repeated, or an order of another component.
OrderCreatedEvent ==
    /\ \E id \in Submitted \cup {ForeignId} : process_order_created_event(id)
    /\ UNCHANGED <<pc, buy_fee>>

\* The venue announces the failure of an order it has failed, possibly late or
\* repeated, or of an order of another component.
OrderFailedEvent ==
    /\ \E id \in {i \in Submitted : orders[i].state = "failed"} \cup {ForeignId} :
          process_order_failed_event(id)
    /\ UNCHANGED <<pc, buy_fee>>

Fill ==
    /\ \E id \in OrderIds, price \in FillPrices, fee \in FillFees : VenueFill(id, price, fee)
    /\ UNCHANGED <<pc, buy_fee>>

Fail ==
    /\ \E id \in OrderIds : VenueFail(id)
    /\ UNCHANGED <<pc, buy_fee>>

Next ==
    \/ control_task
    \/ PricesReturn
    \/ BuyFeeReturn
    \/ SellFeeReturn
    \/ OrderCreatedEvent
    \/ OrderFailedEvent
    \/ Fill
    \/ Fail

Spec == Init /\ [][Next]_vars

\* ------------------------------------------------- a failing submission
\* execute_arbitrage when the place_order call of leg `failing` raises: the
\* status is already ACTIVE_ARBITRAGE, the legs placed before it keep their
\* orders and the remaining statements are skipped.
execute_arbitrage_raises(buy_price, sell_price, failing) ==
    LET b == place_buy_arbitrage_order(orders, next_id, buy_price)
    IN  /\ arbitrage_status' = "ACTIVE_ARBITRAGE"
        /\ IF failing = "BUY"
           THEN UNCHANGED <<buy_order, sell_order, orders, next_id>>
           ELSE /\ buy_order' = b.leg
                /\ orders' = b.orders
                /\ next_id' = b.next_id
                /\ UNCHANGED sell_order

\* control_task in NOT_STARTED from the answer of its last await to its return,
\* with a profitable evaluation of q and a submission that raises: the
\* exception of execute_arbitrage reaches the except clause of control_task,
\* which logs it and returns.
EvaluateStepSubmissionRaises(q, failing) ==
    /\ IsProfitable(q)
    /\ last_tx_cost' = q.buy_fee + q.sell_fee
    /\ execute_arbitrage_raises(last_buy_price, last_sell_price, failing)
    /\ raised' = FALSE
    /\ UNCHANGED <<max_retries, last_buy_price, last_sell_price,
                   cumulative_failures, terminated, resubmissions>>

\* The sell leg's fee answers and a submission of execute_arbitrage raises.
sell_fee_return_submission_raises(fee, failing) ==
    /\ pc = "await_sell_fee"
    /\ EvaluateStepSubmissionRaises(Seen(buy_fee, fee), failing)
    /\ pc' = "idle"
    /\ buy_fee' = NoneVal
    /\ last' = Op("step", NoneVal, Seen(buy_fee, fee))

\* process_order_failed_event for a leg's current order when the place_order
\* call of the resubmission raises: the exception leaves the handler before the
\* leg is assigned and before the failure is counted.
process_order_failed_event_raises(id) ==
    /\ buy_order.order_id = id \/ sell_order.order_id = id
    /\ last' = Op("failed_raised", id, NoQuote)
    /\ UNCHANGED <<max_retries, arbitrage_status, buy_order, sell_order,
                   last_buy_price, last_sell_price, last_tx_cost,
                   cumulative_failures, terminated, raised, orders, next_id,
                   resubmissions>>

SubmissionRaises ==
    \E fee \in LegFees, failing \in {"BUY", "SELL"} :
        sell_fee_return_submission_raises(fee, failing)

ResubmissionRaises ==
    /\ \E id \in {i \in Submitted : orders[i].state = "failed"} :
          process_order_failed_event_raises(id)
    /\ UNCHANGED <<pc, buy_fee>>

NextSubmit ==
    \/ control_task
    \/ PricesReturn
    \/ BuyFeeReturn
    \/ SellFeeReturn
    \/ SubmissionRaises
    \/ OrderCreatedEvent
    \/ OrderFailedEvent
    \/ ResubmissionRaises
    \/ Fill
    \/ Fail

SpecSubmit == Init /\ [][NextSubmit]_vars

\* ------------------------------------------------------------- scheduling
\* The venue settles order id: it fills it or fails it.
Settle(id) ==
    /\ \/ \E price \in FillPrices, fee \in FillFees : VenueFill(id, price, fee)
       \/ VenueFail(id)
    /\ UNCHANGED <<pc, buy_fee>>

\* The venue announces the creation of a leg's current order that has no
\* snapshot yet.
Acknowledge(id) ==
    /\ \/ buy_order.order_id = id /\ buy_order.order = NoneVal
       \/ sell_order.order_id = id /\ sell_order.order = NoneVal
    /\ process_order_created_event(id)
    /\ UNCHANGED <<pc, buy_fee>>

\* The venue reports the failure of a leg's current order.
ReportFailure(id) ==
    /\ id \in {buy_order.order_id, sell_order.order_id}
    /\ orders[id].state = "failed"
    /\ process_order_failed_event(id)
    /\ UNCHANGED <<pc, buy_fee>>

\* The driver keeps calling control_task (a call is possible only when the
\* previous one has returned); every submitted order is eventually
\* settled, and the creation or the failure of a leg's current order is
\* eventually announced.
Fairness ==
    /\ WF_vars(control_task)
    /\ \A id \in OrderIds : WF_vars(Settle(id))
    /\ \A id \in OrderIds : WF_vars(Acknowledge(id))
    /\ \A id \in OrderIds : WF_vars(ReportFailure(id))

SettleOrder == \E id \in OrderIds : Settle(id)

AcknowledgeOrder == \E id \in OrderIds : Acknowledge(id)

ReportOrderFailure == \E id \in OrderIds : ReportFailure(id)

\* The run with the notifications that matter to it: those of the legs'
\* current orders (any other notification changes nothing of the run).
LiveNext ==
    \/ control_task
    \/ PricesReturn
    \/ BuyFeeReturn
    \/ SellFeeReturn
    \/ SettleOrder
    \/ AcknowledgeOrder
    \/ ReportOrderFailure

LiveSpec == Init /\ [][LiveNext]_vars /\ Fairness

\* ------------------------------------------------------------ PnL reporter
\* The in-flight order a leg's snapshot refers to (leg.order).
OrderOf(leg) == orders[leg.order]

\* Mutant of net_pnl: the status is not tested; the PnL is computed as soon as
\* both snapshots are present.
net_pnl_AnyStatus ==
    IF buy_order.order # NoneVal /\ sell_order.order # NoneVal
    THEN LET sell_quote_amount ==
                 OrderOf(sell_order).executed_amount * OrderOf(sell_order).average_price
             buy_quote_amount ==
                 OrderOf(buy_order).executed_amount * OrderOf(buy_order).average_price
             cum_fees ==
                 OrderOf(buy_order).cum_fee_quote + OrderOf(sell_order).cum_fee_quote
         IN  sell_quote_amount - buy_quote_amount - cum_fees
    ELSE 0

\* Mutant of net_pnl: only the buy leg's fee is deducted.
net_pnl_BuyFeeOnly ==
    IF arbitrage_status = "COMPLETED"
    THEN LET sell_quote_amount ==
                 OrderOf(sell_order).executed_amount * OrderOf(sell_order).average_price
             buy_quote_amount ==
                 OrderOf(buy_order).executed_amount * OrderOf(buy_order).average_price
             cum_fees == OrderOf(buy_order).cum_fee_quote
         IN  sell_quote_amount - buy_quote_amount - cum_fees
    ELSE 0

\* net_pnl
net_pnl ==
    IF arbitrage_status = "COMPLETED"
    THEN LET sell_quote_amount ==
                 OrderOf(sell_order).executed_amount * OrderOf(sell_order).average_price
             buy_quote_amount ==
                 OrderOf(buy_order).executed_amount * OrderOf(buy_order).average_price
             cum_fees ==
                 OrderOf(buy_order).cum_fee_quote + OrderOf(sell_order).cum_fee_quote
         IN  sell_quote_amount - buy_quote_amount - cum_fees
    ELSE 0

\* net_pnl_pct: net_pnl / buy executed amount as a ratio, Decimal("0") as 0/1.
net_pnl_pct ==
    IF arbitrage_status = "COMPLETED"
    THEN [num |-> net_pnl, den |-> OrderOf(buy_order).executed_amount]
    ELSE [num |-> 0, den |-> 1]

\* ================================================================ claims
Terminal == {"COMPLETED", "FAILED"}

\* The orders a step or handler has just submitted, by side.
NewOrders(side) ==
    {i \in OrderIds : orders[i].state = "none" /\ orders'[i].state # "none"
                      /\ orders'[i].side = side}

\* The outstanding (submitted, not filled, not failed) orders of a side.
Outstanding(side) ==
    {i \in OrderIds : orders[i].side = side /\ orders[i].state = "submitted"}

\* C1: the run status only moves NOT_STARTED -> ACTIVE_ARBITRAGE ->
\* {COMPLETED, FAILED}; it never moves backward and a terminal status never
\* changes, whatever step or notification happens.
C1_StatusMonotonic ==
    [][\/ arbitrage_status' = arbitrage_status
       \/ arbitrage_status = "NOT_STARTED" /\ arbitrage_status' = "ACTIVE_ARBITRAGE"
       \/ arbitrage_status = "ACTIVE_ARBITRAGE" /\ arbitrage_status' \in Terminal]_vars

\* C1 witness: a terminal run has handled the failure of a leg's current order
\* and has kept its status.
C1_Witness ==
    /\ arbitrage_status = "FAILED"
    /\ last.op = "failed"
    /\ last.id # ForeignId
    /\ resubmissions > max_retries + 1

\* The evaluation of q yields a value and spreadPct - costPct <= minProfitability.
YieldsAtMostMinimum(q) ==
    /\ q.buy > 0 /\ q.sell >= 0 /\ q.buy_fee >= 0 /\ q.sell_fee >= 0
    /\ ((q.sell - q.buy) * FeeScale * order_amount - (q.buy_fee + q.sell_fee) * q.buy)
           * ProfScale
         <= min_profitability * q.buy * FeeScale * order_amount

\* The evaluation of q yields a value and spreadPct - costPct > minProfitability.
YieldsAboveMinimum(q) ==
    /\ q.buy > 0 /\ q.sell >= 0 /\ q.buy_fee >= 0 /\ q.sell_fee >= 0
    /\ ((q.sell - q.buy) * FeeScale * order_amount - (q.buy_fee + q.sell_fee) * q.buy)
           * ProfScale
         > min_profitability * q.buy * FeeScale * order_amount

\* C2: a step in NOT_STARTED whose evaluation yields spreadPct - costPct <=
\* minProfitability (equality included) leaves the status NOT_STARTED and
\* submits no order; while the status is NOT_STARTED no order was ever submitted.
C2_UnprofitableStays ==
    /\ [][(/\ arbitrage_status = "NOT_STARTED"
           /\ last'.op = "step"
           /\ YieldsAtMostMinimum(last'.q))
          => /\ arbitrage_status' = "NOT_STARTED"
             /\ orders' = orders
             /\ next_id' = next_id
             /\ buy_order' = buy_order
             /\ sell_order' = sell_order]_vars
    /\ [](arbitrage_status = "NOT_STARTED" => next_id = 0 /\ Submitted = {})

\* C2 witness: a step has evaluated spread 1.0 % - cost 0.7 % = 0.3 %, which
\* equals the minimum, and the run is still NOT_STARTED.
C2_Witness ==
    /\ arbitrage_status = "NOT_STARTED"
    /\ last.op = "step"
    /\ last.q = [buy |-> 100, sell |-> 101, buy_fee |-> 35, sell_fee |-> 35]
    /\ last_tx_cost = 70
    /\ next_id = 0

\* C3: a step in NOT_STARTED whose evaluation yields spreadPct - costPct >
\* minProfitability ends in ACTIVE_ARBITRAGE with exactly one order submitted
\* for the buy leg and one for the sell leg, both still unfilled.
C3_ProfitableStarts ==
    [][(/\ arbitrage_status = "NOT_STARTED"
        /\ last'.op = "step"
        /\ YieldsAboveMinimum(last'.q))
       => /\ arbitrage_status' = "ACTIVE_ARBITRAGE"
          /\ Cardinality(NewOrders("BUY")) = 1
          /\ Cardinality(NewOrders("SELL")) = 1
          /\ next_id' = next_id + 2
          /\ buy_order'.order_id \in NewOrders("BUY")
          /\ sell_order'.order_id \in NewOrders("SELL")
          /\ \A i \in NewOrders("BUY") \cup NewOrders("SELL") :
                /\ orders'[i].state = "submitted"
                /\ orders'[i].amount = order_amount]_vars

\* C3 witness: scenario A (buy quote 100, sell quote 101, cost 0.5 %, minimum
\* 0.3 %) has just started the arbitrage.
C3_Witness ==
    /\ arbitrage_status = "ACTIVE_ARBITRAGE"
    /\ last.op = "step"
    /\ last.q = [buy |-> 100, sell |-> 101, buy_fee |-> 25, sell_fee |-> 25]
    /\ orders[buy_order.order_id].state = "submitted"
    /\ orders[sell_order.order_id].state = "submitted"

\* C4: the number of leg resubmissions of a run never exceeds maxRetries + 1.
C4_RetriesBounded == resubmissions <= max_retries + 1

\* C5: once the status is COMPLETED or FAILED, no step and no notification
\* submits a new order or changes the legs' order identifiers, the status or
\* cumulativeFailures.
C5_TerminalTakesNoAction ==
    [][(arbitrage_status \in Terminal)
       => /\ arbitrage_status' = arbitrage_status
          /\ next_id' = next_id
          /\ Submitted' = Submitted
          /\ buy_order'.order_id = buy_order.order_id
          /\ sell_order'.order_id = sell_order.order_id
          /\ cumulative_failures' = cumulative_failures]_vars

\* The notification just handled is the failure of a leg's current order.
MatchingFailure ==
    /\ last'.op = "failed"
    /\ last'.id \in {buy_order.order_id, sell_order.order_id}

\* C6: cumulativeFailures never decreases; an order-failed notification that
\* matches the current order of a leg increases it by exactly 1 and nothing
\* else changes it.
C6_FailuresCountedOnce ==
    [][/\ cumulative_failures' >= cumulative_failures
       /\ MatchingFailure => cumulative_failures' = cumulative_failures + 1
       /\ ~MatchingFailure => cumulative_failures' = cumulative_failures]_vars

\* C6 witness: the failure of the sell leg's current order has been counted
\* after a failure of the buy leg.
C6_Witness ==
    /\ last.op = "failed"
    /\ cumulative_failures = 2
    /\ sell_order.order_id = next_id
    /\ orders[last.id].side = "SELL"
    /\ \E i \in OrderIds : orders[i].side = "BUY" /\ orders[i].state = "failed"

\* C7: FAILED implies cumulativeFailures > maxRetries, and the status becomes
\* FAILED only by a step taken in ACTIVE_ARBITRAGE.
C7_FailedOnlyWhenExceeded ==
    /\ [](arbitrage_status = "FAILED" => cumulative_failures > max_retries)
    /\ [][(arbitrage_status' = "FAILED" /\ arbitrage_status # "FAILED")
          => /\ arbitrage_status = "ACTIVE_ARBITRAGE"
             /\ last'.op = "step"
             /\ max_retries < cumulative_failures]_vars

\* C7 witness: a step has just moved the run to FAILED.
C7_Witness ==
    /\ arbitrage_status = "FAILED"
    /\ last.op = "step"
    /\ cumulative_failures = max_retries + 1
    /\ terminated

\* C8: a step in ACTIVE_ARBITRAGE moves to FAILED exactly when
\* cumulativeFailures > maxRetries, whatever the legs' fill state.
C8_BudgetCheckFirst ==
    [][(arbitrage_status = "ACTIVE_ARBITRAGE" /\ last'.op = "step")
       => IF cumulative_failures > max_retries
          THEN arbitrage_status' = "FAILED"
          ELSE arbitrage_status' # "FAILED"]_vars

\* C8 witness: with maxRetries = 2 the third failure has been counted, both
\* legs' current orders are acknowledged and filled, and the step has moved
\* the run to FAILED.
C8_Witness ==
    /\ max_retries = 2
    /\ cumulative_failures = 3
    /\ arbitrage_status = "FAILED"
    /\ last.op = "step"
    /\ BothFilled

\* C9: the status becomes COMPLETED only by a step in ACTIVE_ARBITRAGE at which
\* both legs' current orders are acknowledged and filled and the budget is not
\* exceeded; a COMPLETED run has both current orders acknowledged and filled.
C9_CompletedOnlyWhenBothFilled ==
    /\ [](arbitrage_status = "COMPLETED"
          => /\ buy_order.order = buy_order.order_id
             /\ sell_order.order = sell_order.order_id
             /\ orders[buy_order.order_id].state = "filled"
             /\ orders[sell_order.order_id].state = "filled"
             /\ cumulative_failures <= max_retries)
    /\ [][(arbitrage_status' = "COMPLETED" /\ arbitrage_status # "COMPLETED")
          => /\ arbitrage_status = "ACTIVE_ARBITRAGE"
             /\ last'.op = "step"
             /\ buy_order.order = buy_order.order_id
             /\ sell_order.order = sell_order.order_id
             /\ orders[buy_order.order_id].state = "filled"
             /\ orders[sell_order.order_id].state = "filled"
             /\ cumulative_failures <= max_retries]_vars

\* C9 witness: a run whose sell leg was resubmitted has just completed.
C9_Witness ==
    /\ arbitrage_status = "COMPLETED"
    /\ last.op = "step"
    /\ cumulative_failures = 1
    /\ sell_order.order_id = 3

\* C10: each leg has at most one outstanding order, and a leg gets a new order
\* only at the initial submission or in the handler of the failure of its
\* current order, which the new order replaces.
C10_OneOutstandingPerLeg ==
    /\ [](/\ Cardinality(Outstanding("BUY")) <= 1
          /\ Cardinality(Outstanding("SELL")) <= 1)
    /\ [][/\ NewOrders("BUY") # {}
             => \/ /\ last'.op = "step"
                   /\ arbitrage_status = "NOT_STARTED"
                   /\ buy_order.order_id = NoneVal
                \/ /\ last'.op = "failed"
                   /\ last'.id = buy_order.order_id
                   /\ orders[last'.id].state = "failed"
                   /\ NewOrders("BUY") = {buy_order'.order_id}
          /\ NewOrders("SELL") # {}
             => \/ /\ last'.op = "step"
                   /\ arbitrage_status = "NOT_STARTED"
                   /\ sell_order.order_id = NoneVal
                \/ /\ last'.op = "failed"
                   /\ last'.id = sell_order.order_id
                   /\ orders[last'.id].state = "failed"
                   /\ NewOrders("SELL") = {sell_order'.order_id}]_vars

\* C10 witness: the buy leg's order was replaced twice and the replacement is
\* its only outstanding order.
C10_Witness ==
    /\ Cardinality({i \in OrderIds : orders[i].side = "BUY" /\ orders[i].state = "failed"}) = 2
    /\ Outstanding("BUY") = {buy_order.order_id}
    /\ last.op = "failed"

\* The order a failure handler has just placed repeats the failed order's
\* venue and pair, side and amount.
SameLeg(old, new) ==
    /\ orders'[new].market = orders[old].market
    /\ orders'[new].side = orders[old].side
    /\ orders'[new].amount = orders[old].amount
    /\ orders'[new].state = "submitted"

\* C11: an order-failed notification matching one leg resubmits that leg only,
\* with the same venue, pair, side and amount, leaves the other leg's order
\* identifier, snapshot and order untouched, and does not change the status.
C11_RetryLeavesOtherLeg ==
    [][/\ (last'.op = "failed" /\ last'.id = buy_order.order_id)
          => /\ NewOrders("BUY") = {buy_order'.order_id}
             /\ NewOrders("SELL") = {}
             /\ SameLeg(buy_order.order_id, buy_order'.order_id)
             /\ sell_order' = sell_order
             /\ \A i \in Submitted : orders'[i] = orders[i]
             /\ arbitrage_status' = arbitrage_status
       /\ (last'.op = "failed" /\ last'.id = sell_order.order_id)
          => /\ NewOrders("SELL") = {sell_order'.order_id}
             /\ NewOrders("BUY") = {}
             /\ SameLeg(sell_order.order_id, sell_order'.order_id)
             /\ buy_order' = buy_order
             /\ \A i \in Submitted : orders'[i] = orders[i]
             /\ arbitrage_status' = arbitrage_status]_vars

\* C11 witness: the sell leg's order has failed and been replaced while the
\* buy leg is acknowledged and filled.
C11_Witness ==
    /\ last.op = "failed"
    /\ last.id \in OrderIds
    /\ orders[last.id].side = "SELL"
    /\ sell_order.order_id = next_id
    /\ sell_order.order = NoneVal
    /\ orders[sell_order.order_id].market = "selling_market"
    /\ buy_order.order = buy_order.order_id
    /\ buy_order.order # NoneVal
    /\ orders[buy_order.order_id].state = "filled"

\* A quote, fee or rate request of the evaluation of q fails.
RequestFails(q) ==
    \/ q.buy = Unavailable
    \/ q.sell = Unavailable
    \/ q.buy_fee = Unavailable
    \/ q.sell_fee = Unavailable

\* C12: a step in NOT_STARTED during which a quote, fee or rate request fails
\* absorbs the error: the status stays NOT_STARTED, cumulativeFailures is
\* unchanged, no order is submitted, nothing is raised and the next step
\* evaluates again.
C12_EvaluationErrorAbsorbed ==
    [][(/\ arbitrage_status = "NOT_STARTED"
        /\ last'.op = "step"
        /\ RequestFails(last'.q))
       => /\ arbitrage_status' = "NOT_STARTED"
          /\ cumulative_failures' = cumulative_failures
          /\ orders' = orders
          /\ next_id' = next_id
          /\ buy_order' = buy_order
          /\ sell_order' = sell_order
          /\ terminated' = terminated
          /\ raised' = FALSE
          /\ pc' = "idle"]_vars

\* C12 witness: the quotes 100 / 101 were observed, the buy leg's fee was 25,
\* the sell leg's fee request failed, and the step has returned with the run
\* still NOT_STARTED and no cost recorded.
C12_Witness ==
    /\ arbitrage_status = "NOT_STARTED"
    /\ last.op = "step"
    /\ last.q = [buy |-> 100, sell |-> 101, buy_fee |-> 25, sell_fee |-> Unavailable]
    /\ pc = "idle"
    /\ last_buy_price = 100
    /\ last_sell_price = 101
    /\ last_tx_cost = NoneVal
    /\ cumulative_failures = 0
    /\ next_id = 0

\* The current order of a leg is filled on its venue.
LegFilled(leg) == leg.order_id \in OrderIds /\ orders[leg.order_id].state = "filled"

\* C13: a step in ACTIVE_ARBITRAGE with cumulativeFailures <= maxRetries while
\* at least one leg is not filled (its order possibly not yet acknowledged) is
\* a no-op: it raises nothing and leaves the status, the legs and
\* cumulativeFailures unchanged.
C13_WaitingStepIsNoOp ==
    [][(/\ arbitrage_status = "ACTIVE_ARBITRAGE"
        /\ last'.op = "step"
        /\ cumulative_failures <= max_retries
        /\ ~(LegFilled(buy_order) /\ LegFilled(sell_order)))
       => /\ raised' = FALSE
          /\ arbitrage_status' = arbitrage_status
          /\ buy_order' = buy_order
          /\ sell_order' = sell_order
          /\ cumulative_failures' = cumulative_failures]_vars

\* The venue's record of a leg's current order, by the leg's order identifier.
Current(leg) == orders[leg.order_id]

\* Both legs' current orders are acknowledged and filled.
BothLegsDone ==
    /\ LegFilled(buy_order) /\ buy_order.order = buy_order.order_id
    /\ LegFilled(sell_order) /\ sell_order.order = sell_order.order_id

\* C14: netPnl and netPnlPct are exactly zero in every state whose status is
\* NOT_STARTED, ACTIVE_ARBITRAGE or FAILED, whatever the legs have executed.
C14_PnlZeroUnlessCompleted ==
    arbitrage_status # "COMPLETED" => net_pnl = 0 /\ net_pnl_pct.num = 0

\* C14 witness: a FAILED run both of whose legs are acknowledged and filled,
\* at prices and fees whose difference is not zero.
C14_Witness ==
    /\ arbitrage_status = "FAILED"
    /\ BothLegsDone
    /\ Current(sell_order).average_price = 101
    /\ Current(buy_order).average_price = 100
    /\ net_pnl = 0

\* C15: in COMPLETED, netPnl = sell executed amount * sell average price - buy
\* executed amount * buy average price - (buy fee + sell fee) of the legs'
\* current orders and netPnlPct = netPnl / buy executed amount; buy
\* (10, 100, fee 1) and sell (10, 101, fee 1) give netPnl = 8.
C15_PnlWhenCompleted ==
    arbitrage_status = "COMPLETED"
    => /\ net_pnl = Current(sell_order).executed_amount * Current(sell_order).average_price
                    - Current(buy_order).executed_amount * Current(buy_order).average_price
                    - (Current(buy_order).cum_fee_quote + Current(sell_order).cum_fee_quote)
       /\ net_pnl_pct.den # 0
       /\ net_pnl_pct.num * Current(buy_order).executed_amount = net_pnl * net_pnl_pct.den
       /\ (/\ Current(buy_order).executed_amount = 10
           /\ Current(buy_order).average_price = 100
           /\ Current(buy_order).cum_fee_quote = 1
           /\ Current(sell_order).executed_amount = 10
           /\ Current(sell_order).average_price = 101
           /\ Current(sell_order).cum_fee_quote = 1)
          => net_pnl = 8 /\ net_pnl_pct.num * 10 = 8 * net_pnl_pct.den

\* C15 witness: the run has completed with buy (10, 100, fee 1) and sell
\* (10, 101, fee 1) and reports a netPnl of 8.
C15_Witness ==
    /\ arbitrage_status = "COMPLETED"
    /\ Current(buy_order).executed_amount = 10
    /\ Current(buy_order).average_price = 100
    /\ Current(buy_order).cum_fee_quote = 1
    /\ Current(sell_order).executed_amount = 10
    /\ Current(sell_order).average_price = 101
    /\ Current(sell_order).cum_fee_quote = 1
    /\ net_pnl = 8

\* C16: a step and the handlers exclude each other on the legs and the status.
\* A handler that runs while a step is suspended runs before the step's
\* decision: the status is NOT_STARTED, no leg is submitted and the handler
\* writes nothing the step decides on; a state with status ACTIVE_ARBITRAGE and
\* only one leg submitted does not exist; and a step writes a leg only when it
\* submits both legs at once, from NOT_STARTED, over legs no handler has replaced.
C16_StepAndHandlersExclusive ==
    /\ [](arbitrage_status = "ACTIVE_ARBITRAGE"
          => buy_order.order_id \in OrderIds /\ sell_order.order_id \in OrderIds)
    /\ [][(last'.op \in {"created", "failed"} /\ pc # "idle")
          => /\ arbitrage_status = "NOT_STARTED"
             /\ buy_order = TrackedOrder(NoneVal)
             /\ sell_order = TrackedOrder(NoneVal)
             /\ UNCHANGED <<arbitrage_status, buy_order, sell_order, orders,
                            cumulative_failures, last_buy_price, last_sell_price,
                            last_tx_cost, pc, buy_fee>>]_vars
    /\ [][(last'.op = "step" /\ (buy_order' # buy_order \/ sell_order' # sell_order))
          => /\ arbitrage_status = "NOT_STARTED"
             /\ arbitrage_status' = "ACTIVE_ARBITRAGE"
             /\ resubmissions = 0
             /\ buy_order = TrackedOrder(NoneVal)
             /\ sell_order = TrackedOrder(NoneVal)
             /\ buy_order'.order_id \in NewOrders("BUY")
             /\ sell_order'.order_id \in NewOrders("SELL")]_vars

\* C16 witness: a notification has been handled while a step is suspended at
\* the sell leg's fee request, after it observed the quotes 100 / 101 and the
\* buy leg's fee 25.
C16_Witness ==
    /\ pc = "await_sell_fee"
    /\ buy_fee = 25
    /\ last.op \in {"created", "failed"}
    /\ arbitrage_status = "NOT_STARTED"
    /\ last_buy_price = 100
    /\ last_sell_price = 101

\* C17: a notification whose order identifier matches neither leg's current
\* order identifier changes nothing: no snapshot is attached, no order is
\* submitted, cumulativeFailures and the status are unchanged.
C17_UnmatchedNotificationIgnored ==
    [][(/\ last'.op \in {"created", "failed"}
        /\ last'.id # buy_order.order_id
        /\ last'.id # sell_order.order_id)
       => UNCHANGED <<buy_order, sell_order, orders, next_id, resubmissions,
                      cumulative_failures, arbitrage_status, terminated>>]_vars

\* C17 witness: the acknowledgment of the buy leg's first order arrives after
\* that order failed and was replaced; the replacement has no snapshot.
C17_Witness ==
    /\ last.op = "created"
    /\ last.id = 1
    /\ orders[1].state = "failed"
    /\ buy_order.order_id = 3
    /\ buy_order.order = NoneVal
    /\ sell_order.order_id = 2

\* C18: the control loop is marked terminated if and only if the status is
\* COMPLETED or FAILED, and the mark is set by the very step that moves the
\* status there.
C18_StopSignalIffTerminal ==
    /\ [](terminated <=> arbitrage_status \in Terminal)
    /\ [][(terminated' /\ ~terminated)
          => /\ last'.op = "step"
             /\ arbitrage_status \notin Terminal
             /\ arbitrage_status' \in Terminal]_vars

\* C18 witness: a step has just completed the run and stopped the loop.
C18_Witness ==
    /\ arbitrage_status = "COMPLETED"
    /\ terminated
    /\ last.op = "step"
    /\ cumulative_failures = 0

\* C19: the status is NOT_STARTED exactly when no order has ever been submitted
\* for either leg, and then cumulativeFailures = 0; in every other status both
\* legs carry a submitted order identifier, also after a step whose order
\* submission raised.
C19_StartedIffSubmitted ==
    /\ arbitrage_status = "NOT_STARTED" <=> next_id = 0
    /\ arbitrage_status = "NOT_STARTED" => cumulative_failures = 0
    /\ arbitrage_status # "NOT_STARTED"
       => buy_order.order_id \in Submitted /\ sell_order.order_id \in Submitted

\* C20: once the run is ACTIVE_ARBITRAGE, if the driver keeps calling the step
\* and every submitted order is eventually acknowledged and filled or reported
\* failed, the run reaches COMPLETED or FAILED and the driver is told to stop.
C20_ActiveRunTerminates ==
    (arbitrage_status = "ACTIVE_ARBITRAGE")
        ~> (arbitrage_status \in Terminal /\ terminated)

\* C20 witness: a run that used its whole retry budget (two failures, two
\* resubmissions) has still completed and stopped the loop.
C20_Witness ==
    /\ arbitrage_status \in Terminal
    /\ terminated
    /\ resubmissions = 2
    /\ cumulative_failures = 2
    /\ max_retries = 2
    /\ arbitrage_status = "COMPLETED"

====
